---- MODULE Spec2Model ----
(***************************************************************************)
(* Model of the unified-components MCP server (src/src/index.ts): the      *)
(* component generator (scaffold_component and the per-library backends)   *)
(* and the component store (save_component / get_component) on the file    *)
(* system under DATA_DIR/components.                                       *)
(*                                                                         *)
(* Generated source text is represented by the template it instantiates:   *)
(* the record Template(backend, template, name) stands for the string the  *)
(* backend's catalogue holds under `template` with every ${name} replaced  *)
(* by `name`.  The facts a reader can observe in that text (cva table,     *)
(* props interface, destructuring defaults) are tabulated per template.    *)
(***************************************************************************)
EXTENDS Integers, Sequences, FiniteSets, TLC

VARIABLES
  req,        \* the generator request under study
  resp,       \* {} or {its latest result}
  again,      \* {} or {[resp, between]}: the result before the latest one, and what ran between the two
  between,    \* tools invoked since the latest result
  dirs,       \* directories that exist under DATA_DIR/components
  files,      \* path -> bytes of every file under DATA_DIR/components
  sreq,       \* arguments of the last store tool call
  sresp,      \* its result
  nsaves,     \* number of save_component calls made so far
  lastWrite,  \* (library, category, name) -> bytes written by the latest successful save to that key
  unreadable, \* directories and files under DATA_DIR/components whose reads fail (EACCES)
  listed,     \* {} or {the listing the last list_components call returned}
  tokensDoc,  \* state of DATA_DIR/tokens/design-tokens.json
  call,       \* the tool call handled last: its tool name and arguments
  outcome,    \* how that call ended: a result value or a rejection
  inflight,   \* concurrently dispatched calls: id -> tool, arguments, position, result
  tableProps, \* props the parent passes to the stored DataTable
  sortConfig  \* useState of the stored DataTable: {} (null) or {[key, direction]}

genVars   == <<req, resp, again, between>>
storeVars == <<dirs, files, sreq, sresp, nsaves, lastWrite, unreadable, listed>>
toolVars  == <<tokensDoc, call, outcome>>
concVars  == <<inflight>>
tableVars == <<tableProps, sortConfig>>
vars      == <<req, resp, again, between, dirs, files, sreq, sresp, nsaves, lastWrite,
               unreadable, listed, tokensDoc, call, outcome, inflight, tableProps, sortConfig>>

-----------------------------------------------------------------------------
(* Bounds *)

MaxCodeLen == 1     \* longest `code` argument, in characters
MaxSaves   == 2     \* save_component calls explored per behaviour
MaxInflight == 3    \* tool calls dispatched concurrently per behaviour
MaxRows     == 2    \* rows of the data a DataTable is given
MaxSelected == 3    \* ids in the selectedRows a DataTable is given

-----------------------------------------------------------------------------
(* Program constants *)

LIBRARIES == <<"shadcn", "mui", "chakra", "headless", "custom">>

CATEGORIES ==
  <<"forms", "tables", "modals", "navigation", "feedback", "layout", "data-display">>

SeqRange(s) == {s[i] : i \in 1..Len(s)}

\* z.enum([...]) of scaffold_component.componentType
ScaffoldComponentTypes ==
  {"button", "input", "select", "modal", "card", "table", "tabs", "menu",
   "alert", "badge", "avatar", "tooltip"}

\* own keys of the `components` / `patterns` object literal of each backend
ShadcnKeys   == {"button", "input", "select", "modal", "card", "alert", "tabs", "menu", "table"}
MuiKeys      == {"button", "input", "select", "modal", "card", "alert", "tabs", "menu", "table"}
ChakraKeys   == {"button", "input", "select", "modal", "card", "alert", "tabs", "menu", "table"}
HeadlessKeys == {"button", "modal", "tabs", "menu", "select", "input", "card", "alert", "table"}

\* The catalogues are plain object literals, so a bracket lookup also finds
\* what they inherit from Object.prototype.
ObjectPrototypeKeys ==
  {"constructor", "toString", "toLocaleString", "valueOf", "hasOwnProperty",
   "isPrototypeOf", "propertyIsEnumerable", "__proto__"}

-----------------------------------------------------------------------------
(* Values returned by a catalogue lookup *)

Template(backend, template, name) ==
  [kind |-> "text", backend |-> backend, template |-> template, name |-> name]

\* a function or object inherited from Object.prototype: truthy, not a string
Inherited(key) ==
  [kind |-> "object", backend |-> "Object.prototype", template |-> key, name |-> ""]

Undefined ==
  [kind |-> "undefined", backend |-> "", template |-> "", name |-> ""]

\* components[componentType]
Lookup(backend, keys, componentType, name) ==
  IF componentType \in keys THEN Template(backend, componentType, name)
  ELSE IF componentType \in ObjectPrototypeKeys THEN Inherited(componentType)
  ELSE Undefined

\* a || b
OrElse(a, b) == IF a.kind = "undefined" THEN b ELSE a

-----------------------------------------------------------------------------
(* Backends *)

scaffoldShadcnComponent(name, componentType, props, withVariants) ==
  OrElse(Lookup("shadcn", ShadcnKeys, componentType, name),
         Template("shadcn", "button", name))

scaffoldMuiComponent(name, componentType, props) ==
  OrElse(Lookup("mui", MuiKeys, componentType, name),
         Template("mui", "button", name))

scaffoldChakraComponent(name, componentType, props) ==
  OrElse(Lookup("chakra", ChakraKeys, componentType, name),
         Template("chakra", "button", name))

scaffoldHeadlessComponent(name, componentType, props) ==
  OrElse(Lookup("headless", HeadlessKeys, componentType, name),
         Template("headless", "button", name))

scaffoldCustomComponent(name, componentType, props, withVariants) ==
  scaffoldHeadlessComponent(name, componentType, props)

\* variant: a library outside the switch falls back to the first backend
scaffoldMultiLibraryComponentFirst(name, library, componentType, props, withVariants) ==
  CASE library = "shadcn"   -> scaffoldShadcnComponent(name, componentType, props, withVariants)
    [] library = "mui"      -> scaffoldMuiComponent(name, componentType, props)
    [] library = "chakra"   -> scaffoldChakraComponent(name, componentType, props)
    [] library = "headless" -> scaffoldHeadlessComponent(name, componentType, props)
    [] library = "custom"   -> scaffoldCustomComponent(name, componentType, props, withVariants)
    [] OTHER                -> scaffoldShadcnComponent(name, componentType, props, withVariants)

\* variant: a component saved under the same library and name shadows the template
scaffoldMultiLibraryComponentSaved(name, library, componentType, props, withVariants) ==
  IF \E p \in DOMAIN files : p.dir = <<library, "forms">>
  THEN Template("store", componentType, name)
  ELSE CASE library = "shadcn"   -> scaffoldShadcnComponent(name, componentType, props, withVariants)
         [] library = "mui"      -> scaffoldMuiComponent(name, componentType, props)
         [] library = "chakra"   -> scaffoldChakraComponent(name, componentType, props)
         [] library = "headless" -> scaffoldHeadlessComponent(name, componentType, props)
         [] OTHER                -> scaffoldCustomComponent(name, componentType, props, withVariants)

scaffoldMultiLibraryComponent(name, library, componentType, props, withVariants) ==
  CASE library = "shadcn"   -> scaffoldShadcnComponent(name, componentType, props, withVariants)
    [] library = "mui"      -> scaffoldMuiComponent(name, componentType, props)
    [] library = "chakra"   -> scaffoldChakraComponent(name, componentType, props)
    [] library = "headless" -> scaffoldHeadlessComponent(name, componentType, props)
    [] OTHER                -> scaffoldCustomComponent(name, componentType, props, withVariants)

-----------------------------------------------------------------------------
(* What the emitted text of each template contains *)

Axis(axis, values, default) == [axis |-> axis, values |-> values, default |-> default]
Field(name, optional)       == [name |-> name, optional |-> optional]

\* variant: defaultVariants names the small size
ShadcnCvaAxesSmallDefault(template) ==
  CASE template = "button" ->
      <<Axis("variant", <<"default", "destructive", "outline", "secondary", "ghost", "link">>, "default"),
        Axis("size", <<"default", "sm", "lg", "icon">>, "sm")>>
    [] template = "alert" ->
      <<Axis("variant", <<"default", "destructive">>, "default")>>
    [] OTHER -> <<>>

\* cva(..., { variants: {...}, defaultVariants: {...} }) of the shadcn templates
ShadcnCvaAxes(template) ==
  CASE template = "button" ->
      <<Axis("variant", <<"default", "destructive", "outline", "secondary", "ghost", "link">>, "default"),
        Axis("size", <<"default", "sm", "lg", "icon">>, "default")>>
    [] template = "alert" ->
      <<Axis("variant", <<"default", "destructive">>, "default")>>
    [] OTHER -> <<>>

\* variant: asChild is a required field
ShadcnPropsFieldsRequired(template) ==
  CASE template = "button" ->
      {Field("asChild", FALSE)}
    [] OTHER -> {}

ShadcnPropsFields(template) ==
  CASE template = "button" ->
      {Field("asChild", TRUE)}
    [] OTHER -> {}

MuiPropsFields(template) ==
  CASE template = "button" ->
      {Field("children", FALSE),
       Field("variant", TRUE),
       Field("color", TRUE),
       Field("size", TRUE),
       Field("disabled", TRUE),
       Field("loading", TRUE),
       Field("startIcon", TRUE),
       Field("endIcon", TRUE),
       Field("onClick", TRUE)}
    [] template = "input" ->
      {Field("label", TRUE),
       Field("placeholder", TRUE),
       Field("value", TRUE),
       Field("onChange", TRUE),
       Field("error", TRUE),
       Field("helperText", TRUE),
       Field("type", TRUE),
       Field("variant", TRUE),
       Field("size", TRUE),
       Field("fullWidth", TRUE),
       Field("required", TRUE),
       Field("disabled", TRUE),
       Field("multiline", TRUE),
       Field("rows", TRUE)}
    [] template = "select" ->
      {Field("label", TRUE),
       Field("value", TRUE),
       Field("onChange", TRUE),
       Field("options", FALSE),
       Field("error", TRUE),
       Field("helperText", TRUE),
       Field("size", TRUE),
       Field("fullWidth", TRUE),
       Field("required", TRUE),
       Field("disabled", TRUE)}
    [] template = "modal" ->
      {Field("open", FALSE),
       Field("onClose", FALSE),
       Field("title", TRUE),
       Field("children", FALSE),
       Field("actions", TRUE),
       Field("maxWidth", TRUE),
       Field("fullWidth", TRUE)}
    [] template = "card" ->
      {Field("title", TRUE),
       Field("subheader", TRUE),
       Field("children", FALSE),
       Field("actions", TRUE),
       Field("image", TRUE),
       Field("imageAlt", TRUE),
       Field("imageHeight", TRUE),
       Field("elevation", TRUE),
       Field("variant", TRUE)}
    [] template = "alert" ->
      {Field("severity", TRUE),
       Field("variant", TRUE),
       Field("title", TRUE),
       Field("children", FALSE),
       Field("onClose", TRUE),
       Field("icon", TRUE),
       Field("action", TRUE)}
    [] template = "tabs" ->
      {Field("tabs", FALSE),
       Field("defaultValue", TRUE),
       Field("onChange", TRUE),
       Field("variant", TRUE),
       Field("centered", TRUE)}
    [] template = "menu" ->
      {Field("anchorEl", FALSE),
       Field("open", FALSE),
       Field("onClose", FALSE),
       Field("items", FALSE),
       Field("anchorOrigin", TRUE),
       Field("transformOrigin", TRUE)}
    [] template = "table" ->
      {Field("columns", FALSE),
       Field("rows", FALSE),
       Field("selectable", TRUE),
       Field("onSelectionChange", TRUE),
       Field("pagination", TRUE),
       Field("rowsPerPageOptions", TRUE),
       Field("stickyHeader", TRUE),
       Field("maxHeight", TRUE)}
    [] OTHER -> {}

ChakraPropsFields(template) ==
  CASE template = "button" ->
      {Field("loading", TRUE)}
    [] template = "input" ->
      {Field("label", TRUE),
       Field("error", TRUE),
       Field("helperText", TRUE),
       Field("leftElement", TRUE),
       Field("rightElement", TRUE)}
    [] template = "select" ->
      {Field("label", TRUE),
       Field("error", TRUE),
       Field("options", FALSE)}
    [] template = "modal" ->
      {Field("title", TRUE),
       Field("children", FALSE),
       Field("footer", TRUE)}
    [] template = "card" ->
      {Field("title", TRUE),
       Field("subtitle", TRUE),
       Field("children", FALSE),
       Field("footer", TRUE)}
    [] template = "alert" ->
      {Field("status", TRUE),
       Field("variant", TRUE),
       Field("title", TRUE),
       Field("children", FALSE),
       Field("onClose", TRUE)}
    [] template = "tabs" ->
      {Field("tabs", FALSE),
       Field("defaultIndex", TRUE),
       Field("onChange", TRUE)}
    [] template = "menu" ->
      {Field("trigger", FALSE),
       Field("items", FALSE),
       Field("buttonVariant", TRUE)}
    [] template = "table" ->
      {Field("columns", FALSE),
       Field("data", FALSE),
       Field("selectable", TRUE),
       Field("selectedRows", TRUE),
       Field("onSelectionChange", TRUE),
       Field("variant", TRUE),
       Field("size", TRUE)}
    [] OTHER -> {}

HeadlessPropsFields(template) ==
  CASE template = "button" ->
      {Field("variant", TRUE),
       Field("size", TRUE),
       Field("loading", TRUE)}
    [] template = "modal" ->
      {Field("isOpen", FALSE),
       Field("onClose", FALSE),
       Field("title", TRUE),
       Field("description", TRUE),
       Field("children", FALSE),
       Field("size", TRUE)}
    [] template = "tabs" ->
      {Field("tabs", FALSE),
       Field("defaultIndex", TRUE),
       Field("onChange", TRUE)}
    [] template = "menu" ->
      {Field("trigger", FALSE),
       Field("items", FALSE),
       Field("align", TRUE)}
    [] template = "select" ->
      {Field("options", FALSE),
       Field("value", TRUE),
       Field("onChange", FALSE),
       Field("label", TRUE),
       Field("placeholder", TRUE)}
    [] template = "input" ->
      {Field("label", TRUE),
       Field("error", TRUE),
       Field("helperText", TRUE)}
    [] template = "card" ->
      {Field("variant", TRUE),
       Field("padding", TRUE)}
    [] template = "alert" ->
      {Field("variant", TRUE),
       Field("title", TRUE),
       Field("children", FALSE),
       Field("onClose", TRUE)}
    [] template = "table" ->
      {Field("data", FALSE),
       Field("columns", FALSE),
       Field("keyField", FALSE),
       Field("onRowClick", TRUE),
       Field("className", TRUE),
       Field("emptyMessage", TRUE)}
    [] OTHER -> {}

MuiPropAxes(template) ==
  CASE template = "button" ->
      <<Axis("variant", <<"contained", "outlined", "text">>, "contained"),
        Axis("color", <<"primary", "secondary", "error", "warning", "info", "success">>, "primary"),
        Axis("size", <<"small", "medium", "large">>, "medium")>>
    [] template = "input" ->
      <<Axis("type", <<"text", "password", "email", "number">>, "text"),
        Axis("variant", <<"outlined", "filled", "standard">>, "outlined"),
        Axis("size", <<"small", "medium">>, "medium")>>
    [] template = "select" ->
      <<Axis("size", <<"small", "medium">>, "medium")>>
    [] template = "modal" ->
      <<Axis("maxWidth", <<"xs", "sm", "md", "lg", "xl", "false">>, "sm")>>
    [] template = "card" ->
      <<Axis("variant", <<"elevation", "outlined">>, "elevation")>>
    [] template = "alert" ->
      <<Axis("severity", <<"error", "warning", "info", "success">>, "info"),
        Axis("variant", <<"standard", "filled", "outlined">>, "standard")>>
    [] template = "tabs" ->
      <<Axis("variant", <<"standard", "scrollable", "fullWidth">>, "standard")>>
    [] OTHER -> <<>>

ChakraPropAxes(template) ==
  CASE template = "alert" ->
      <<Axis("status", <<"info", "warning", "success", "error", "loading">>, "info"),
        Axis("variant", <<"subtle", "solid", "left-accent", "top-accent">>, "subtle")>>
    [] template = "menu" ->
      <<Axis("buttonVariant", <<"solid", "outline", "ghost">>, "outline")>>
    [] template = "table" ->
      <<Axis("variant", <<"simple", "striped", "unstyled">>, "simple"),
        Axis("size", <<"sm", "md", "lg">>, "md")>>
    [] OTHER -> <<>>

HeadlessPropAxes(template) ==
  CASE template = "button" ->
      <<Axis("variant", <<"primary", "secondary", "outline", "ghost">>, "primary"),
        Axis("size", <<"sm", "md", "lg">>, "md")>>
    [] template = "modal" ->
      <<Axis("size", <<"sm", "md", "lg", "xl">>, "md")>>
    [] template = "menu" ->
      <<Axis("align", <<"left", "right">>, "right")>>
    [] template = "card" ->
      <<Axis("variant", <<"default", "bordered", "elevated">>, "default"),
        Axis("padding", <<"none", "sm", "md", "lg">>, "md")>>
    [] template = "alert" ->
      <<Axis("variant", <<"info", "success", "warning", "error">>, "info")>>
    [] OTHER -> <<>>

\* heritage of the emitted props type (extends clause, or inline intersection)
PropsExtends(backend, template) ==
  CASE backend = "shadcn" /\ template = "button" ->
         {"React.ButtonHTMLAttributes<HTMLButtonElement>", "VariantProps<typeof buttonVariants>"}
    [] backend = "shadcn" /\ template = "input" ->
         {"React.InputHTMLAttributes<HTMLInputElement>"}
    [] backend = "shadcn" /\ template = "alert" ->
         {"React.HTMLAttributes<HTMLDivElement>", "VariantProps<typeof alertVariants>"}
    [] backend = "chakra" /\ template = "button" -> {"ButtonProps"}
    [] backend = "chakra" /\ template = "input"  -> {"InputProps"}
    [] backend = "chakra" /\ template = "select" -> {"Omit<SelectProps, 'children'>"}
    [] backend = "chakra" /\ template = "modal"  -> {"Omit<ModalProps, 'children'>"}
    [] backend = "chakra" /\ template = "card"   -> {"CardProps"}
    [] backend = "chakra" /\ template = "tabs"   -> {"Omit<TabsProps, 'children'>"}
    [] backend = "headless" /\ template = "button" ->
         {"React.ButtonHTMLAttributes<HTMLButtonElement>"}
    [] backend = "headless" /\ template = "input" ->
         {"React.InputHTMLAttributes<HTMLInputElement>"}
    [] backend = "headless" /\ template = "card" ->
         {"React.HTMLAttributes<HTMLDivElement>"}
    [] OTHER -> {}

\* the stored layout/Card component: union-typed props and their defaults
CardAxes ==
  <<Axis("variant", <<"default", "bordered", "elevated", "ghost">>, "default"),
    Axis("padding", <<"none", "sm", "md", "lg">>, "md")>>

IsText(src) == src.kind = "text"

\* axes of the cva() variant table found in a generated text
CvaAxes(src) ==
  IF IsText(src) /\ src.backend = "shadcn" THEN ShadcnCvaAxes(src.template) ELSE <<>>

\* union-typed props of the ${name}Props interface, with destructuring defaults
PropAxes(src) ==
  IF ~IsText(src) THEN <<>>
  ELSE CASE src.backend = "mui"      -> MuiPropAxes(src.template)
         [] src.backend = "chakra"   -> ChakraPropAxes(src.template)
         [] src.backend = "headless" -> HeadlessPropAxes(src.template)
         [] OTHER                    -> <<>>

\* fields declared by the ${name}Props interface of a generated text
PropsFields(src) ==
  IF ~IsText(src) THEN {}
  ELSE CASE src.backend = "shadcn"   -> ShadcnPropsFields(src.template)
         [] src.backend = "mui"      -> MuiPropsFields(src.template)
         [] src.backend = "chakra"   -> ChakraPropsFields(src.template)
         [] src.backend = "headless" -> HeadlessPropsFields(src.template)
         [] OTHER                    -> {}

FieldNames(src) == {f.name : f \in PropsFields(src)}
AxisNames(axes) == [i \in 1..Len(axes) |-> axes[i].axis]

-----------------------------------------------------------------------------
(* Inputs *)

Names == {"PrimaryButton", "UserProfile"}

\* every library of the schema and one identifier outside it
LibraryInputs == SeqRange(LIBRARIES) \cup {"vue-tailwind"}

\* every advertised type, one unknown string, one name inherited from Object.prototype
ComponentTypeInputs == ScaffoldComponentTypes \cup {"data-grid", "constructor"}

Prop(name, type) == [name |-> name, type |-> type]

PropsInputs ==
  { <<>>,
    <<Prop("onClick", "() => void"), Prop("tone", "string")>>,
    <<Prop("intent", "'primary' | 'danger'"), Prop("size", "'sm' | 'lg'")>> }

ReservedProps == {"children", "onClick", "disabled", "className"}

\* an optional argument is {} when omitted and {v} when given
Optional(S) == {{}} \cup {{v} : v \in S}
OrDefault(opt, d) == IF opt = {} THEN d ELSE CHOOSE v \in opt : TRUE

-----------------------------------------------------------------------------
(* Results of awaited calls and of tool calls *)

\* the result of an awaited fs call: a value, or the error it rejects with
Ok(value) == [ok |-> TRUE, value |-> value, error |-> ""]
Err(code) == [ok |-> FALSE, value |-> {}, error |-> code]

\* promise.catch(() => fallback)
OrCatch(r, fallback) == IF r.ok THEN r.value ELSE fallback

\* how a tool call ends at the server boundary: the handler's promise
\* resolves to a result (isError, the kind of its text, what the text holds)
\* or rejects with the error thrown
Resolved(isError, message) ==
  [settled |-> "resolved", isError |-> isError, message |-> message, value |-> {}]
Returned(message, value) ==
  [settled |-> "resolved", isError |-> FALSE, message |-> message, value |-> value]
Rejected(error) ==
  [settled |-> "rejected", isError |-> FALSE, message |-> error, value |-> {}]
NoOutcome == [settled |-> "none", isError |-> FALSE, message |-> "", value |-> {}]
NoCall    == [tool |-> "none"]

\* variant: the handler has no try/catch
SettleUncaught(attempt, kind, errorKind) ==
  IF attempt.ok THEN Returned(kind, attempt.value) ELSE Rejected(attempt.error)

\* try { return <attempt> } catch (error) { return { ..., isError: true } }
Settle(attempt, kind, errorKind) ==
  IF attempt.ok THEN Returned(kind, attempt.value) ELSE Resolved(TRUE, errorKind)

\* a handler without try/catch: what its body throws rejects the call
Propagate(attempt, kind) ==
  IF attempt.ok THEN Returned(kind, attempt.value) ELSE Rejected(attempt.error)

-----------------------------------------------------------------------------
(* Generator calls *)

\* arguments of one call; props and withVariants are optional arguments
Request(tool, name, library, componentType, propsOpt, withVariantsOpt) ==
  [tool |-> tool, name |-> name, library |-> library, componentType |-> componentType,
   props |-> propsOpt, withVariants |-> withVariantsOpt]

Result(isError, text) == [isError |-> isError, text |-> text]

\* calls of the scaffold_component tool that its zod schema admits
ToolRequests ==
  { Request("scaffold_component", name, library, componentType, propsOpt, withVariantsOpt) :
      name \in Names, library \in SeqRange(LIBRARIES), componentType \in ScaffoldComponentTypes,
      propsOpt \in Optional(PropsInputs), withVariantsOpt \in Optional(BOOLEAN) }

\* direct calls of scaffoldMultiLibraryComponent with a library or a componentType
\* outside the tool's enums (both are plain strings at run time)
GeneratorRequests ==
  { r \in { Request("generator", name, library, componentType, {props}, {withVariants}) :
             name \in Names, library \in LibraryInputs, componentType \in ComponentTypeInputs,
             props \in PropsInputs, withVariants \in BOOLEAN } :
      r.library \notin SeqRange(LIBRARIES) \/ r.componentType \notin ScaffoldComponentTypes }

\* what scaffold_component returns: { content: [{ type: "text", text: component }] }
ScaffoldOutcome(name, library, componentType, props, withVariants) ==
  Returned("component",
           scaffoldMultiLibraryComponent(name, library, componentType, props, withVariants))

\* one evaluation of the generator for the request under study
Generate(name, library, componentType, props, withVariants) ==
  /\ resp' = {Result(FALSE, scaffoldMultiLibraryComponent(name, library, componentType, props, withVariants))}
  /\ again' = {[resp |-> r, between |-> between] : r \in resp}
  /\ between' = {}
  /\ outcome' = ScaffoldOutcome(name, library, componentType, props, withVariants)
  /\ UNCHANGED <<req, storeVars, tokensDoc, call, concVars, tableVars>>

\* async ({ name, library, componentType, props = [], withVariants = true }) => ...
scaffold_component(name, library, componentType, propsOpt, withVariantsOpt) ==
  Generate(name, library, componentType,
           OrDefault(propsOpt, <<>>), OrDefault(withVariantsOpt, TRUE))

ScaffoldCall ==
  /\ req.tool = "scaffold_component"
  /\ scaffold_component(req.name, req.library, req.componentType, req.props, req.withVariants)

GeneratorCall ==
  /\ req.tool = "generator"
  /\ Generate(req.name, req.library, req.componentType,
              OrDefault(req.props, <<>>), OrDefault(req.withVariants, TRUE))

\* a scaffold_component call with other arguments: its result goes to another
\* caller and no variable of the server changes
OtherScaffoldCall ==
  /\ \E componentType \in {"button", "card"} \ {req.componentType} :
       scaffoldMultiLibraryComponent(req.name, req.library, componentType, <<>>, TRUE).kind # "undefined"
  /\ between' = between \cup {"scaffold_component"}
  /\ UNCHANGED <<req, resp, again, storeVars, toolVars, concVars, tableVars>>

-----------------------------------------------------------------------------
(* Text and its UTF-8 file form *)

\* UTF-16 code units of the identifiers that appear in stored text
Chars(s) ==
  CASE s = "shadcn" -> <<115, 104, 97, 100, 99, 110>>
    [] s = "mui" -> <<109, 117, 105>>
    [] s = "chakra" -> <<99, 104, 97, 107, 114, 97>>
    [] s = "headless" -> <<104, 101, 97, 100, 108, 101, 115, 115>>
    [] s = "custom" -> <<99, 117, 115, 116, 111, 109>>
    [] s = "forms" -> <<102, 111, 114, 109, 115>>
    [] s = "tables" -> <<116, 97, 98, 108, 101, 115>>
    [] s = "modals" -> <<109, 111, 100, 97, 108, 115>>
    [] s = "navigation" -> <<110, 97, 118, 105, 103, 97, 116, 105, 111, 110>>
    [] s = "feedback" -> <<102, 101, 101, 100, 98, 97, 99, 107>>
    [] s = "layout" -> <<108, 97, 121, 111, 117, 116>>
    [] s = "data-display" -> <<100, 97, 116, 97, 45, 100, 105, 115, 112, 108, 97, 121>>
    [] s = "PrimaryButton" -> <<80, 114, 105, 109, 97, 114, 121, 66, 117, 116, 116, 111, 110>>
    [] s = "UserProfile" -> <<85, 115, 101, 114, 80, 114, 111, 102, 105, 108, 101>>
    [] s = "Button" -> <<66, 117, 116, 116, 111, 110>>
    [] s = "Card" -> <<67, 97, 114, 100>>
    [] s = ".tsx" -> <<46, 116, 115, 120>>
    [] s = ".." -> <<46, 46>>
    [] s = "/" -> <<47>>
    [] s = "icons" -> <<105, 99, 111, 110, 115>>
    [] s = "Component not found: " ->
         <<67, 111, 109, 112, 111, 110, 101, 110, 116, 32, 110, 111, 116, 32,
           102, 111, 117, 110, 100, 58, 32>>
    [] OTHER -> <<>>

HeaderOpen     == <<47, 42, 42, 10, 32, 42, 32>>                                    \* "/**\n * "
HeaderLibrary  == <<10, 32, 42, 32, 64, 108, 105, 98, 114, 97, 114, 121, 32>>       \* "\n * @library "
HeaderCategory == <<10, 32, 42, 32, 64, 99, 97, 116, 101, 103, 111, 114, 121, 32>>  \* "\n * @category "
HeaderClose    == <<10, 32, 42, 47, 10, 10>>                                        \* "\n */\n\n"

\* variant: the block is written whenever a description argument is present
HeaderIfPresent(descriptionOpt, library, category) ==
  IF descriptionOpt = {} THEN <<>>
  ELSE HeaderOpen \o OrDefault(descriptionOpt, <<>>) \o HeaderLibrary \o Chars(library)
       \o HeaderCategory \o Chars(category) \o HeaderClose

\* description ? `/**\n * ${description}\n * @library ${library}\n * @category ${category}\n */\n\n` : ""
\* (an omitted description and the empty string are both falsy)
Header(descriptionOpt, library, category) ==
  LET description == OrDefault(descriptionOpt, <<>>) IN
  IF description = <<>> THEN <<>>
  ELSE HeaderOpen \o description \o HeaderLibrary \o Chars(library)
       \o HeaderCategory \o Chars(category) \o HeaderClose

IsHighSurrogate(u) == u >= 55296 /\ u <= 56319
IsLowSurrogate(u)  == u >= 56320 /\ u <= 57343
ReplacementBytes   == <<239, 191, 189>>     \* U+FFFD

\* the concatenation of the sequences f[lo], ..., f[hi]
RECURSIVE Flatten(_, _, _)
Flatten(f, lo, hi) ==
  IF lo > hi THEN <<>>
  ELSE IF lo = hi THEN f[lo]
  ELSE LET mid == (lo + hi) \div 2 IN Flatten(f, lo, mid) \o Flatten(f, mid + 1, hi)

\* bytes fs.writeFile stores for the code unit at position i of a string (its
\* default encoding is utf8): a surrogate pair becomes one 4-byte sequence,
\* written at its first half; an unpaired surrogate becomes U+FFFD
Utf8EncodeAt(s, i) ==
  LET u == s[i] IN
    IF IsHighSurrogate(u) /\ i < Len(s) /\ IsLowSurrogate(s[i + 1])
    THEN LET cp == 65536 + (u - 55296) * 1024 + (s[i + 1] - 56320) IN
         << 240 + (cp \div 262144), 128 + ((cp \div 4096) % 64),
            128 + ((cp \div 64) % 64), 128 + (cp % 64) >>
    ELSE IF IsLowSurrogate(u) /\ i > 1 /\ IsHighSurrogate(s[i - 1])
    THEN <<>>
    ELSE IF IsHighSurrogate(u) \/ IsLowSurrogate(u)
    THEN ReplacementBytes
    ELSE IF u < 128
    THEN <<u>>
    ELSE IF u < 2048
    THEN << 192 + (u \div 64), 128 + (u % 64) >>
    ELSE << 224 + (u \div 4096), 128 + ((u \div 64) % 64), 128 + (u % 64) >>

Utf8Encode(s) == Flatten([i \in 1..Len(s) |-> Utf8EncodeAt(s, i)], 1, Len(s))

IsContinuation(b, i) == i >= 1 /\ i <= Len(b) /\ b[i] >= 128 /\ b[i] <= 191

\* number of bytes of the well-formed sequence that starts at position i
\* (0 when none does)
SequenceLength(b, i) ==
  IF i < 1 \/ i > Len(b) THEN 0
  ELSE LET c == b[i] IN
    IF c < 128 THEN 1
    ELSE IF c >= 192 /\ c <= 223 /\ IsContinuation(b, i + 1) THEN 2
    ELSE IF c >= 224 /\ c <= 239 /\ IsContinuation(b, i + 1) /\ IsContinuation(b, i + 2) THEN 3
    ELSE IF c >= 240 /\ c <= 247 /\ IsContinuation(b, i + 1) /\ IsContinuation(b, i + 2)
            /\ IsContinuation(b, i + 3) THEN 4
    ELSE 0

\* code units fs.readFile(path, "utf-8") returns for the byte at position i:
\* the character of the sequence that starts there, nothing for a byte inside
\* a sequence, U+FFFD for any other byte
Utf8DecodeAt(b, i) ==
  LET c == b[i] n == SequenceLength(b, i) IN
    IF n = 1 THEN <<c>>
    ELSE IF n = 2 THEN << (c - 192) * 64 + (b[i + 1] - 128) >>
    ELSE IF n = 3
    THEN << (c - 224) * 4096 + (b[i + 1] - 128) * 64 + (b[i + 2] - 128) >>
    ELSE IF n = 4
    THEN LET cp == (c - 240) * 262144 + (b[i + 1] - 128) * 4096
                   + (b[i + 2] - 128) * 64 + (b[i + 3] - 128)
         IN << 55296 + ((cp - 65536) \div 1024), 56320 + ((cp - 65536) % 1024) >>
    ELSE IF \E k \in 1..3 : SequenceLength(b, i - k) > k
    THEN <<>>
    ELSE <<65533>>

Utf8Decode(b) == Flatten([i \in 1..Len(b) |-> Utf8DecodeAt(b, i)], 1, Len(b))

-----------------------------------------------------------------------------
(* Paths under DATA_DIR/components *)

\* A name is [dir, base]: the "/"-separated segments before the last "/" and
\* the text after it.  A directory is a sequence of segments; a file is
\* [dir, base] and stands for the entry named `base` of the directory `dir`.
Name(dir, base) == [dir |-> dir, base |-> base]

\* path.join's normalisation of the directory part
RECURSIVE Normalize(_, _)
Normalize(segs, acc) ==
  IF segs = <<>> THEN acc
  ELSE LET s == Head(segs) IN
    IF s = "" \/ s = "." THEN Normalize(Tail(segs), acc)
    ELSE IF s = ".." /\ acc # <<>> /\ acc[Len(acc)] # ".."
    THEN Normalize(Tail(segs), SubSeq(acc, 1, Len(acc) - 1))
    ELSE Normalize(Tail(segs), Append(acc, s))

\* path.join(DATA_DIR, "components", library, category)
CategoryDir(library, category) == <<library, category>>

\* path.join(DATA_DIR, "components", library, category, `${name}.tsx`)
ComponentPath(library, category, name) ==
  [dir  |-> Normalize(CategoryDir(library, category) \o name.dir, <<>>),
   base |-> name.base \o Chars(".tsx")]

\* the component shipped with the server: DATA_DIR/components/layout/Card.tsx
\* (its text is cut to its first characters, the opening of its doc comment)
ShippedCard == [dir |-> <<"layout">>, base |-> Chars("Card") \o Chars(".tsx")]
ShippedCardText == <<47, 42, 42>>

\* a directory as a member of `unreadable`
Directory(d) == [dir |-> d, base |-> <<>>]

\* fs.mkdir(dir, { recursive: true })
Mkdir(ds, dir) == ds \cup {SubSeq(dir, 1, k) : k \in 0..Len(dir)}

\* fs.writeFile needs the parent directory; it creates or truncates the file
CanWrite(ds, path) ==
  path.dir \in ds /\ Directory(path.dir) \notin unreadable /\ path \notin unreadable

\* fs.readFile succeeds on an existing file that can be read
CanRead(path) ==
  path \in DOMAIN files /\ Directory(path.dir) \notin unreadable /\ path \notin unreadable

\* entries of a directory: names of its sub-directories and of its files
SubDirs(d) == {s[Len(s)] : s \in {t \in dirs : Len(t) = Len(d) + 1 /\ SubSeq(t, 1, Len(d)) = d}}
FilesIn(d) == {p.base : p \in {q \in DOMAIN files : q.dir = d}}
NoEntries  == [dirs |-> {}, files |-> {}]

\* fs.readdir(d)
Readdir(d) ==
  IF d \notin dirs THEN Err("ENOENT")
  ELSE IF Directory(d) \in unreadable THEN Err("EACCES")
  ELSE Ok([dirs |-> SubDirs(d), files |-> FilesIn(d)])

\* fs.stat(libDir/entry): {} stands for null, otherwise {isDirectory()}
Stat(libDir, entry) ==
  IF Directory(Append(libDir, entry)) \in unreadable THEN Err("EACCES")
  ELSE Ok({Append(libDir, entry) \in dirs})


WriteFile(fs, path, bytes) ==
  [p \in DOMAIN fs \cup {path} |-> IF p = path THEN bytes ELSE fs[p]]

-----------------------------------------------------------------------------
(* Store tools *)

StoreRequest(tool, library, category, name, code, descriptionOpt) ==
  [tool |-> tool, library |-> library, category |-> category, name |-> name,
   code |-> code, description |-> descriptionOpt]

NoStoreRequest == StoreRequest("none", "", "", Name(<<>>, <<>>), <<>>, {})

Reply(isError, kind, text) == [isError |-> isError, kind |-> kind, text |-> text]

Key(library, category, name) == <<library, category, name>>

getInlineComponent(library, category, name) == {}     \* always null

\* the name argument as the caller wrote it
RECURSIVE JoinSegments(_)
JoinSegments(segs) ==
  IF segs = <<>> THEN <<>> ELSE Chars(Head(segs)) \o Chars("/") \o JoinSegments(Tail(segs))

NameText(name) == JoinSegments(name.dir) \o name.base

\* `Component not found: ${library}/${category}/${name}`
NotFoundMessage(library, category, name) ==
  Chars("Component not found: ") \o Chars(library) \o Chars("/") \o Chars(category)
    \o Chars("/") \o NameText(name)

\* what get_component returns in the current state of the store
GetResult(library, category, name) ==
  LET componentPath == ComponentPath(library, category, name) IN
  IF CanRead(componentPath)
  THEN Reply(FALSE, "content", Utf8Decode(files[componentPath]))
  ELSE IF getInlineComponent(library, category, name) # {}
  THEN Reply(FALSE, "content", OrDefault(getInlineComponent(library, category, name), <<>>))
  ELSE Reply(TRUE, "not-found", NotFoundMessage(library, category, name))

get_component(library, category, name) ==
  /\ sreq' = StoreRequest("get_component", library, category, name, <<>>, {})
  /\ sresp' = GetResult(library, category, name)
  /\ outcome' = Resolved(sresp'.isError, sresp'.kind)
  /\ between' = between \cup {"get_component"}
  /\ UNCHANGED <<dirs, files, nsaves, lastWrite, unreadable, listed, req, resp, again>>
  /\ UNCHANGED <<tokensDoc, call, concVars, tableVars>>

save_component(library, category, name, code, descriptionOpt) ==
  LET categoryDir   == CategoryDir(library, category)
      made          == Mkdir(dirs, categoryDir)
      header        == Header(descriptionOpt, library, category)
      componentPath == ComponentPath(library, category, name)
      bytes         == Utf8Encode(header \o code)
  IN
  /\ nsaves < MaxSaves
  /\ nsaves' = nsaves + 1
  /\ sreq' = StoreRequest("save_component", library, category, name, code, descriptionOpt)
  /\ dirs' = made
  /\ IF CanWrite(made, componentPath)
     THEN /\ files' = WriteFile(files, componentPath, bytes)
          /\ sresp' = Reply(FALSE, "saved", <<>>)
          /\ lastWrite' = [k \in DOMAIN lastWrite \cup {Key(library, category, name)} |->
                             IF k = Key(library, category, name) THEN bytes ELSE lastWrite[k]]
     ELSE /\ sresp' = Reply(TRUE, "error-saving", <<>>)
          /\ UNCHANGED <<files, lastWrite>>
  /\ outcome' = Resolved(sresp'.isError, sresp'.kind)
  /\ between' = between \cup {"save_component"}
  /\ UNCHANGED <<req, resp, again, unreadable, listed, tokensDoc, call, concVars, tableVars>>

\* f.endsWith(suffix)
EndsWith(f, suffix) ==
  Len(f) >= Len(suffix) /\ SubSeq(f, Len(f) - Len(suffix) + 1, Len(f)) = suffix

\* positions at which `pattern` occurs in f
Occurrences(f, pattern) ==
  {i \in 1..(Len(f) - Len(pattern) + 1) : SubSeq(f, i, i + Len(pattern) - 1) = pattern}

\* f.replace(pattern, ""): the first occurrence of the pattern is removed
ReplaceFirst(f, pattern) ==
  IF Occurrences(f, pattern) = {} THEN f
  ELSE LET i == CHOOSE j \in Occurrences(f, pattern) : \A k \in Occurrences(f, pattern) : j <= k
       IN SubSeq(f, 1, i - 1) \o SubSeq(f, i + Len(pattern), Len(f))

\* files.filter((f) => f.endsWith(".tsx")).map((f) => f.replace(".tsx", ""))
ComponentsOf(entries) ==
  {ReplaceFirst(f, Chars(".tsx")) : f \in {g \in entries.files : EndsWith(g, Chars(".tsx"))}}

\* the libraries list_components visits
ListedLibraries(library) == IF library = "all" THEN SeqRange(LIBRARIES) ELSE {library}

LibDir(lib) == <<lib>>

\* entries of libDir; [] when it cannot be read
CategoriesOf(lib) == OrCatch(Readdir(LibDir(lib)), NoEntries)

\* the components listed under result[lib][cat]; [] when catPath cannot be read
ListedIn(lib, cat) == ComponentsOf(OrCatch(Readdir(Append(LibDir(lib), cat)), NoEntries))

\* the categories of lib that get an entry in the result
ListedCategories(lib, category) ==
  {cat \in CategoriesOf(lib).dirs :
     /\ category = "all" \/ cat = category
     /\ OrCatch(Stat(LibDir(lib), cat), {}) = {TRUE}
     /\ ListedIn(lib, cat) # {}}

\* the object list_components builds: library -> category -> component names
Listing(library, category) ==
  [lib \in {l \in ListedLibraries(library) :
              CategoriesOf(l).dirs # {} \/ CategoriesOf(l).files # {}} |->
     [cat \in ListedCategories(lib, category) |-> ListedIn(lib, cat)]]

\* async ({ library = "all", category = "all" }) => ...
list_components(libraryOpt, categoryOpt) ==
  LET library  == OrDefault(libraryOpt, "all")
      category == OrDefault(categoryOpt, "all")
  IN
  /\ sreq' = StoreRequest("list_components", library, category, Name(<<>>, <<>>), <<>>, {})
  /\ listed' = {Listing(library, category)}
  /\ sresp' = Reply(FALSE, "listing", <<>>)
  /\ outcome' = Returned("listing", Listing(library, category))
  /\ between' = between \cup {"list_components"}
  /\ UNCHANGED <<dirs, files, nsaves, lastWrite, unreadable, req, resp, again>>
  /\ UNCHANGED <<tokensDoc, call, concVars, tableVars>>

-----------------------------------------------------------------------------
(* The other tools *)

TranslateComponentTypes ==
  {"button", "input", "select", "modal", "card", "table", "tabs", "menu", "alert"}

CompareComponentTypes == {"button", "input", "select", "modal", "card", "tabs", "menu"}

GuideTopics == {"setup", "theming", "patterns", "accessibility", "all"}

TokenTypes ==
  {"all", "colors", "spacing", "typography", "shadows", "breakpoints", "animations"}

TokenFormats == {"json", "css", "tailwind", "chakra", "mui"}

PackageManagers == {"npm", "pnpm", "yarn", "bun"}

\* componentType.charAt(0).toUpperCase() + componentType.slice(1)
Capitalize(componentType) ==
  CASE componentType = "button" -> "Button"
    [] componentType = "input"  -> "Input"
    [] componentType = "select" -> "Select"
    [] componentType = "modal"  -> "Modal"
    [] componentType = "card"   -> "Card"
    [] componentType = "table"  -> "Table"
    [] componentType = "tabs"   -> "Tabs"
    [] componentType = "menu"   -> "Menu"
    [] componentType = "alert"  -> "Alert"
    [] OTHER -> componentType

\* the keys of `notes`, each "a-b" written as the pair <<a, b>>
NoteKeys ==
  { <<"shadcn", "mui">>, <<"shadcn", "chakra">>, <<"mui", "chakra">>, <<"headless", "shadcn">> }

\* notes[key] || notes[reverseKey] || "// Different styling approaches - see library docs":
\* the note is named by its key, the default text by <<>>
getLibraryDifferences(source, target) ==
  IF <<source, target>> \in NoteKeys THEN <<source, target>>
  ELSE IF <<target, source>> \in NoteKeys THEN <<target, source>>
  ELSE <<>>

\* the text translate_component returns: explanation + translated
Translation(sourceLibrary, targetLibrary, componentType, sourceCodeOpt) ==
  LET translated == scaffoldMultiLibraryComponent(Capitalize(componentType), targetLibrary,
                                                  componentType, <<>>, TRUE)
      explanation == [from |-> sourceLibrary, to |-> targetLibrary,
                      differences |-> getLibraryDifferences(sourceLibrary, targetLibrary)]
  IN [explanation |-> explanation, component |-> translated]

TranslateOutcome(sourceLibrary, targetLibrary, componentType, sourceCodeOpt) ==
  Returned("translation", Translation(sourceLibrary, targetLibrary, componentType, sourceCodeOpt))

translate_component(sourceLibrary, targetLibrary, componentType, sourceCodeOpt) ==
  /\ outcome' = TranslateOutcome(sourceLibrary, targetLibrary, componentType, sourceCodeOpt)
  /\ UNCHANGED <<genVars, storeVars, tokensDoc, call, concVars, tableVars>>

\* the sections of guides[library] other than "all", in the order written
GuideSections == <<"setup", "theming", "patterns", "accessibility">>

\* the libraries `guides` has an entry for
GuideLibraries == {"shadcn", "mui", "chakra", "headless", "custom"}

\* guides[library][topic] || guides[library].all, after guides[lib].all has
\* been built for every lib of LIBRARIES: a section is named by
\* <<library, topic>>, the "all" guide is the list of the library's sections;
\* a library without an entry in `guides` is a TypeError
getLibraryGuide(library, topic) ==
  IF ~(SeqRange(LIBRARIES) \subseteq GuideLibraries) \/ library \notin GuideLibraries
  THEN Err("TypeError")
  ELSE IF topic \in SeqRange(GuideSections) THEN Ok(<< <<library, topic>> >>)
  ELSE Ok([i \in 1..Len(GuideSections) |-> <<library, GuideSections[i]>>])

GuideOutcome(library, topicOpt) ==
  Propagate(getLibraryGuide(library, OrDefault(topicOpt, "all")), "guide")

\* async ({ library, topic = "all" }) => ...
get_library_guide(library, topicOpt) ==
  /\ outcome' = GuideOutcome(library, topicOpt)
  /\ UNCHANGED <<genVars, storeVars, tokensDoc, call, concVars, tableVars>>

\* keys of `comparisons` in insertion order: each library at its first occurrence
RECURSIVE FirstOccurrences(_, _)
FirstOccurrences(libraries, seen) ==
  IF libraries = <<>> THEN <<>>
  ELSE IF Head(libraries) \in seen THEN FirstOccurrences(Tail(libraries), seen)
  ELSE <<Head(libraries)>> \o FirstOccurrences(Tail(libraries), seen \cup {Head(libraries)})

ComparisonPerRequest(componentType, libraries) ==
  [title    |-> Capitalize(componentType),
   sections |-> [i \in 1..Len(libraries) |->
                   [lib  |-> libraries[i],
                    code |-> scaffoldMultiLibraryComponent(Capitalize(componentType), libraries[i],
                                                           componentType, <<>>, TRUE)]]]

\* the text compare_libraries returns: a title and one section per key of `comparisons`
Comparison(componentType, libraries) ==
  LET keys == FirstOccurrences(libraries, {}) IN
  [title    |-> Capitalize(componentType),
   sections |-> [i \in 1..Len(keys) |->
                   [lib  |-> keys[i],
                    code |-> scaffoldMultiLibraryComponent(Capitalize(componentType), keys[i],
                                                           componentType, <<>>, TRUE)]]]

\* async ({ componentType, libraries = [...LIBRARIES] }) => ...
CompareOutcome(componentType, librariesOpt) ==
  Returned("comparison", Comparison(componentType, OrDefault(librariesOpt, LIBRARIES)))

compare_libraries(componentType, librariesOpt) ==
  /\ outcome' = CompareOutcome(componentType, librariesOpt)
  /\ UNCHANGED <<genVars, storeVars, tokensDoc, call, concVars, tableVars>>

\* the libraries `commands` has an entry for
CommandLibraries == {"shadcn", "mui", "chakra", "headless", "custom"}

\* commands[library][pm]: the text is named by <<library, pm>>; a library
\* without an entry in `commands` is a TypeError
getInstallCommands(library, pm) ==
  IF library \notin CommandLibraries THEN Err("TypeError") ELSE Ok(<<library, pm>>)

InstallOutcome(library, packageManagerOpt) ==
  Propagate(getInstallCommands(library, OrDefault(packageManagerOpt, "npm")), "install")

\* async ({ library, packageManager = "npm" }) => ...
get_install_command(library, packageManagerOpt) ==
  /\ outcome' = InstallOutcome(library, packageManagerOpt)
  /\ UNCHANGED <<genVars, storeVars, tokensDoc, call, concVars, tableVars>>

-----------------------------------------------------------------------------
(* Design tokens *)

\* JSON values: null, atoms (numbers, strings, booleans; `atom` is the text
\* `${value}` gives) and objects (members in document order)
JNull               == [type |-> "null", atom |-> "null", members |-> <<>>]
JAtom(type, atom)   == [type |-> type, atom |-> atom, members |-> <<>>]
JObject(members)    == [type |-> "object", atom |-> "[object Object]", members |-> members]
Member(key, value)  == [key |-> key, value |-> value]

\* values that `||` replaces: null, 0, "" and false
Falsy(v) ==
  \/ v.type = "null"
  \/ v.type = "number" /\ v.atom = "0"
  \/ v.type = "string" /\ v.atom = ""
  \/ v.type = "boolean" /\ v.atom = "false"

HasMember(v, key) == \E i \in 1..Len(v.members) : v.members[i].key = key
MemberOf(v, key)  == v.members[CHOOSE i \in 1..Len(v.members) : v.members[i].key = key].value

\* fs.readFile(tokensPath, "utf-8")
ReadTokens ==
  IF tokensDoc.state = "missing" THEN Err("ENOENT")
  ELSE IF tokensDoc.state = "unreadable" THEN Err("EACCES")
  ELSE Ok(tokensDoc.text)

\* JSON.parse(content)
JSONParse(content) == IF content.valid THEN Ok(content.value) ELSE Err("SyntaxError")

\* tokenType === "all" ? tokens : tokens[tokenType] || {}
SelectTokens(tokens, tokenType) ==
  IF tokenType = "all" THEN Ok(tokens)
  ELSE IF tokens.type = "null" THEN Err("TypeError")
  ELSE IF HasMember(tokens, tokenType) /\ ~Falsy(MemberOf(tokens, tokenType))
  THEN Ok(MemberOf(tokens, tokenType))
  ELSE Ok(JObject(<<>>))

\* Object.entries(value): it throws on null, gives the members of an object,
\* the characters of a string (the strings of the token documents considered
\* have at most one) and nothing for a number or a boolean
Entries(v) ==
  IF v.type = "null" THEN Err("TypeError")
  ELSE IF v.type = "string" /\ v.atom # "" THEN Ok(<<Member("0", v)>>)
  ELSE Ok(v.members)

\* one declaration of the css output
Declaration(path, value) == [property |-> path, value |-> value.atom]

\* the lines one entry of the css output contributes
CssEntry(m) ==
  IF m.value.type \in {"object", "null"}
  THEN IF Entries(m.value).ok
       THEN Ok([i \in 1..Len(m.value.members) |->
                  Declaration(<<m.key, m.value.members[i].key>>, m.value.members[i].value)])
       ELSE Entries(m.value)
  ELSE Ok(<<Declaration(<<m.key>>, m.value)>>)

formatTokens(tokens, format, tokenType) ==
  CASE format = "css" ->
         IF ~Entries(tokens).ok THEN Entries(tokens)
         ELSE LET entries == Entries(tokens).value IN
              IF \E i \in 1..Len(entries) : ~CssEntry(entries[i]).ok
              THEN Err("TypeError")
              ELSE Ok([format |-> "css", key |-> "",
                       body |-> Flatten([i \in 1..Len(entries) |-> CssEntry(entries[i]).value],
                                        1, Len(entries))])
    [] format = "tailwind" -> Ok([format |-> "tailwind", key |-> tokenType, body |-> tokens])
    [] format = "chakra"   -> Ok([format |-> "chakra", key |-> tokenType, body |-> tokens])
    [] format = "mui"      -> Ok([format |-> "mui", key |-> "palette", body |-> tokens])
    [] OTHER               -> Ok([format |-> "json", key |-> "", body |-> tokens])

\* the body of get_design_tokens' try block: the text it returns, or the error thrown
DesignTokens(tokenType, format) ==
  LET content  == ReadTokens
      tokens   == IF content.ok THEN JSONParse(content.value) ELSE content
      selected == IF tokens.ok THEN SelectTokens(tokens.value, tokenType) ELSE tokens
  IN IF ~selected.ok THEN selected
     ELSE IF format = "json" THEN Ok([format |-> "json", key |-> "", body |-> selected.value])
     ELSE formatTokens(selected.value, format, tokenType)

\* async ({ tokenType = "all", format = "json" }) => ...
get_design_tokens(tokenTypeOpt, formatOpt) ==
  /\ outcome' = Settle(DesignTokens(OrDefault(tokenTypeOpt, "all"), OrDefault(formatOpt, "json")),
                       "tokens", "Error reading design tokens")
  /\ UNCHANGED <<genVars, storeVars, tokensDoc, call, concVars, tableVars>>

-----------------------------------------------------------------------------
(* Store inputs *)

StoreLibraries  == {"shadcn"}
StoreCategories == {"forms", "tables"}

\* "Button", "../forms/Button" (leaves its category), "icons/Button" (no such
\* directory), "../../layout/Card" (the component shipped with the server) and
\* ".tsxButton" (contains the file extension)
NameInputs ==
  { Name(<<>>, Chars("Button")),
    Name(<<"..", "forms">>, Chars("Button")),
    Name(<<"icons">>, Chars("Button")),
    Name(<<"..", "..", "layout">>, Chars("Card")),
    Name(<<>>, Chars(".tsx") \o Chars("Button")) }

\* characters a text is made of: 'a', U+1F600 (the surrogate pair 0xD83D 0xDE00),
\* and each half of that pair on its own
Characters == { <<97>>, <<55357, 56832>>, <<55357>>, <<56832>> }

RECURSIVE TextsOfLen(_)
TextsOfLen(n) ==
  IF n = 0 THEN {<<>>}
  ELSE {t \o c : t \in TextsOfLen(n - 1), c \in Characters}

CodeInputs == UNION {TextsOfLen(n) : n \in 0..MaxCodeLen}

DescriptionInputs == Optional({<<>>, <<100>>})

\* save_component calls: every code and description under one plain name,
\* and every name in every category with a short code
SaveInputs ==
  { StoreRequest("save_component", library, "forms", Name(<<>>, Chars("Button")),
                 code, descriptionOpt) :
      library \in StoreLibraries, code \in CodeInputs, descriptionOpt \in DescriptionInputs }
  \cup
  { StoreRequest("save_component", library, category, name, code, {}) :
      library \in StoreLibraries, category \in StoreCategories, name \in NameInputs,
      code \in {<<>>, <<97>>} }

SaveCall ==
  \E r \in SaveInputs :
       save_component(r.library, r.category, r.name, r.code, r.description)

GetCall ==
  \E library \in StoreLibraries, category \in StoreCategories, name \in NameInputs :
       get_component(library, category, name)

ListCall ==
  \E libraryOpt \in Optional(StoreLibraries), categoryOpt \in Optional(StoreCategories) :
       list_components(libraryOpt, categoryOpt)

-----------------------------------------------------------------------------
(* Tool calls and the states of the data directory they meet *)

\* `libraries` arguments of compare_libraries: none, one, all in another
\* order, and one with a library repeated
LibrariesInputs ==
  { <<>>, <<"mui">>, <<"custom", "headless", "chakra", "mui", "shadcn">>,
    <<"chakra", "shadcn", "chakra">> }

\* `sourceCode` arguments of translate_component
SourceCodeInputs == { <<>>, <<97>> }

\* the calls the schema of each tool admits, over the input sets
ListCalls ==
  { [tool |-> "list_components", library |-> libraryOpt, category |-> categoryOpt] :
      libraryOpt \in Optional({"all"} \cup SeqRange(LIBRARIES)),
      categoryOpt \in Optional({"all"} \cup SeqRange(CATEGORIES)) }

GetCalls ==
  { [tool |-> "get_component", library |-> library, category |-> category, name |-> name] :
      library \in SeqRange(LIBRARIES), category \in SeqRange(CATEGORIES), name \in NameInputs }

TranslateCalls ==
  { [tool |-> "translate_component", sourceLibrary |-> sourceLibrary,
     targetLibrary |-> targetLibrary, componentType |-> componentType,
     sourceCode |-> sourceCodeOpt] :
      sourceLibrary \in SeqRange(LIBRARIES), targetLibrary \in SeqRange(LIBRARIES),
      componentType \in TranslateComponentTypes, sourceCodeOpt \in Optional(SourceCodeInputs) }

GuideCalls ==
  { [tool |-> "get_library_guide", library |-> library, topic |-> topicOpt] :
      library \in SeqRange(LIBRARIES), topicOpt \in Optional(GuideTopics) }

CompareCalls ==
  { [tool |-> "compare_libraries", componentType |-> componentType, libraries |-> librariesOpt] :
      componentType \in CompareComponentTypes, librariesOpt \in Optional(LibrariesInputs) }

TokensCalls ==
  { [tool |-> "get_design_tokens", tokenType |-> tokenTypeOpt, format |-> formatOpt] :
      tokenTypeOpt \in Optional(TokenTypes), formatOpt \in Optional(TokenFormats) }

InstallCalls ==
  { [tool |-> "get_install_command", library |-> library, packageManager |-> packageManagerOpt] :
      library \in SeqRange(LIBRARIES), packageManagerOpt \in Optional(PackageManagers) }

\* a token document: colors with a null entry, a number, an empty string
TokensObject ==
  JObject(<< Member("colors", JObject(<< Member("primary", JAtom("string", "b")),
                                         Member("ring", JNull) >>)),
             Member("spacing", JObject(<< Member("sm", JAtom("number", "4")) >>)),
             Member("typography", JAtom("string", "")),
             Member("breakpoints", JAtom("number", "640")),
             Member("animations", JAtom("string", "e")) >>)

\* states of DATA_DIR/tokens/design-tokens.json: absent, unreadable, or holding
\* text that is not JSON, or the JSON text of null, of a number, of an object
TokensDocs ==
  { [state |-> "missing", text |-> [valid |-> FALSE, value |-> JNull]],
    [state |-> "unreadable", text |-> [valid |-> TRUE, value |-> TokensObject]],
    [state |-> "present", text |-> [valid |-> FALSE, value |-> JNull]],
    [state |-> "present", text |-> [valid |-> TRUE, value |-> JNull]],
    [state |-> "present", text |-> [valid |-> TRUE, value |-> JAtom("number", "7")]],
    [state |-> "present", text |-> [valid |-> TRUE, value |-> TokensObject]] }

\* DATA_DIR/components/shadcn/forms/Button.tsx, written by an earlier save
SavedButton == ComponentPath("shadcn", "forms", Name(<<>>, Chars("Button")))

\* states of DATA_DIR/components a call can meet: as shipped, or holding a
\* saved component, with one of the directories or the file unreadable
ComponentsStates ==
  { [dirs |-> {<<>>, <<"layout">>},
     files |-> [p \in {ShippedCard} |-> Utf8Encode(ShippedCardText)],
     unreadable |-> {}] }
  \cup
  { [dirs |-> {<<>>, <<"layout">>, <<"shadcn">>, <<"shadcn", "forms">>},
     files |-> [p \in {ShippedCard, SavedButton} |->
                  IF p = ShippedCard THEN Utf8Encode(ShippedCardText) ELSE <<97>>],
     unreadable |-> u] :
      u \in { {}, {Directory(<<"shadcn">>)}, {Directory(<<"shadcn", "forms">>)}, {SavedButton} } }

ToolList ==
  /\ call.tool = "list_components"
  /\ list_components(call.library, call.category)

ToolGet ==
  /\ call.tool = "get_component"
  /\ get_component(call.library, call.category, call.name)

ToolSave ==
  /\ call.tool = "save_component"
  /\ save_component(call.library, call.category, call.name, call.code, call.description)

ToolScaffold ==
  /\ call.tool = "scaffold_component"
  /\ scaffold_component(call.name, call.library, call.componentType, call.props, call.withVariants)

ToolTranslate ==
  /\ call.tool = "translate_component"
  /\ translate_component(call.sourceLibrary, call.targetLibrary, call.componentType, call.sourceCode)

ToolGuide ==
  /\ call.tool = "get_library_guide"
  /\ get_library_guide(call.library, call.topic)

ToolCompare ==
  /\ call.tool = "compare_libraries"
  /\ compare_libraries(call.componentType, call.libraries)

ToolTokens ==
  /\ call.tool = "get_design_tokens"
  /\ get_design_tokens(call.tokenType, call.format)

ToolInstall ==
  /\ call.tool = "get_install_command"
  /\ get_install_command(call.library, call.packageManager)

\* store activity interleaved with generation: a component of the requested
\* name is saved under the requested library and read back
SaveBetween ==
  \E library \in SeqRange(LIBRARIES) \cap {req.library} :
    save_component(library, "forms", Name(<<>>, Chars(req.name)), <<97>>, {})

GetBetween ==
  \E library \in SeqRange(LIBRARIES) \cap {req.library} :
    get_component(library, "forms", Name(<<>>, Chars(req.name)))

-----------------------------------------------------------------------------
(* Concurrent dispatch: the server starts a handler for every request it
   receives; a handler runs until its next await, where another may run *)

GenerationTools ==
  {"scaffold_component", "translate_component", "compare_libraries", "get_library_guide",
   "get_install_command"}

GenerationOutcomeFromStore(c) ==
  IF \E p \in DOMAIN files : p.dir = CategoryDir("shadcn", "forms")
  THEN Returned("component", <<"saved">>)
  ELSE Returned("component", <<>>)

\* what the handler of a generation tool returns for a call
GenerationOutcome(c) ==
  CASE c.tool = "scaffold_component" ->
         ScaffoldOutcome(c.name, c.library, c.componentType,
                         OrDefault(c.props, <<>>), OrDefault(c.withVariants, TRUE))
    [] c.tool = "translate_component" ->
         TranslateOutcome(c.sourceLibrary, c.targetLibrary, c.componentType, c.sourceCode)
    [] c.tool = "compare_libraries" -> CompareOutcome(c.componentType, c.libraries)
    [] c.tool = "get_library_guide" -> GuideOutcome(c.library, c.topic)
    [] c.tool = "get_install_command" -> InstallOutcome(c.library, c.packageManager)

\* calls dispatched concurrently
ConcurrentScaffolds ==
  { r \in ToolRequests :
      /\ r.name = "PrimaryButton" /\ r.library = "shadcn"
      /\ r.componentType \in {"button", "card"}
      /\ r.props = {} /\ r.withVariants = {} }

ConcurrentTranslations ==
  { c \in TranslateCalls :
      /\ c.sourceLibrary = "mui" /\ c.targetLibrary = "shadcn"
      /\ c.componentType = "button" /\ c.sourceCode = {} }

ConcurrentComparisons ==
  { c \in CompareCalls : c.componentType = "button" /\ c.libraries = {<<"chakra", "shadcn", "chakra">>} }

ConcurrentGuides == { c \in GuideCalls : c.library = "shadcn" /\ c.topic = {} }

ConcurrentInstalls == { c \in InstallCalls : c.library = "shadcn" /\ c.packageManager = {} }

ConcurrentSaves ==
  { StoreRequest("save_component", "shadcn", category, Name(<<>>, Chars("PrimaryButton")), <<97>>, {}) :
      category \in StoreCategories }

ConcurrentLists == { c \in ListCalls : c.library = {"shadcn"} /\ c.category = {} }

EmptyListing == [lib \in {} |-> {}]

\* the local variables of list_components that live across its awaits, and
\* the listings the store has shown since the call started
Locals(categories, result, snapshots) ==
  [categories |-> categories, result |-> result, snapshots |-> snapshots]

NoLocals == Locals(<<>>, EmptyListing, {})

\* what an atomic list_components of call c returns from the present store
Snapshot(c) == Listing(OrDefault(c.library, "all"), OrDefault(c.category, "all"))

InFlight(c) ==
  [call |-> c, pc |-> "dispatched", result |-> NoOutcome,
   locals |-> IF c.tool = "list_components" THEN Locals(<<>>, EmptyListing, {Snapshot(c)})
              ELSE NoLocals]

\* the calls in flight fl, each unfinished list_components having seen the
\* store as it is now (a step that changes the store records the store it
\* finds, a step of list_components the store it reads)
Observe(fl) ==
  [ j \in DOMAIN fl |->
      IF fl[j].call.tool = "list_components" /\ inflight[j].pc # "done"
      THEN [fl[j] EXCEPT !.locals.snapshots = @ \cup {Snapshot(fl[j].call)}]
      ELSE fl[j] ]

\* the orders in which readdir may return the entries S
Orderings(S) ==
  { s \in [1..Cardinality(S) -> S] : \A i, j \in DOMAIN s : i # j => s[i] # s[j] }

\* the server receives a request and starts its handler
Dispatch ==
  /\ Len(inflight) < MaxInflight
  /\ \/ \E c \in ConcurrentScaffolds    : inflight' = Append(inflight, InFlight(c))
     \/ \E c \in ConcurrentTranslations : inflight' = Append(inflight, InFlight(c))
     \/ \E c \in ConcurrentComparisons  : inflight' = Append(inflight, InFlight(c))
     \/ \E c \in ConcurrentGuides       : inflight' = Append(inflight, InFlight(c))
     \/ \E c \in ConcurrentInstalls     : inflight' = Append(inflight, InFlight(c))
     \/ \E c \in ConcurrentSaves        : inflight' = Append(inflight, InFlight(c))
     \/ \E c \in ConcurrentLists        : inflight' = Append(inflight, InFlight(c))
  /\ UNCHANGED <<genVars, storeVars, toolVars, tableVars>>

\* the handler of a generation tool has no await: it runs from start to return
RunGeneration ==
  \E i \in 1..Len(inflight) :
    /\ inflight[i].pc = "dispatched"
    /\ inflight[i].call.tool \in GenerationTools
    /\ inflight' = [inflight EXCEPT ![i] =
                      [@ EXCEPT !.pc = "done", !.result = GenerationOutcome(inflight[i].call)]]
    /\ UNCHANGED <<genVars, storeVars, toolVars, tableVars>>

\* save_component up to its first await: fs.mkdir(categoryDir, { recursive: true })
SaveMkdir ==
  \E i \in 1..Len(inflight) :
    /\ inflight[i].pc = "dispatched"
    /\ inflight[i].call.tool = "save_component"
    /\ dirs' = Mkdir(dirs, CategoryDir(inflight[i].call.library, inflight[i].call.category))
    /\ UNCHANGED <<files, sreq, sresp, nsaves, lastWrite, unreadable, listed>>
    /\ inflight' = Observe([inflight EXCEPT ![i] = [@ EXCEPT !.pc = "mkdir"]])
    /\ UNCHANGED <<genVars, toolVars, tableVars>>

\* save_component from there to its return: fs.writeFile(componentPath, header + code)
SaveWrite ==
  \E i \in 1..Len(inflight) :
    LET c             == inflight[i].call
        componentPath == ComponentPath(c.library, c.category, c.name)
        bytes         == Utf8Encode(Header(c.description, c.library, c.category) \o c.code)
    IN
    /\ inflight[i].pc = "mkdir"
    /\ UNCHANGED <<dirs, sreq, sresp, nsaves, unreadable, listed>>
    /\ IF CanWrite(dirs, componentPath)
       THEN /\ files' = WriteFile(files, componentPath, bytes)
            /\ lastWrite' = [k \in DOMAIN lastWrite \cup {Key(c.library, c.category, c.name)} |->
                               IF k = Key(c.library, c.category, c.name) THEN bytes
                               ELSE lastWrite[k]]
            /\ inflight' = Observe([inflight EXCEPT ![i] =
                              [@ EXCEPT !.pc = "done", !.result = Resolved(FALSE, "saved")]])
       ELSE /\ inflight' = [inflight EXCEPT ![i] =
                              [@ EXCEPT !.pc = "done", !.result = Resolved(TRUE, "error-saving")]]
            /\ UNCHANGED <<files, lastWrite>>
    /\ UNCHANGED <<genVars, toolVars, tableVars>>

\* list_components of one library up to its first await and on from it:
\* fs.readdir(libDir), then the start of the loop over its entries (the
\* entries that are no directories fail the stat test and add nothing)
ListReaddirLib ==
  \E i \in 1..Len(inflight) :
    LET c          == inflight[i].call
        lib        == OrDefault(c.library, "all")
        category   == OrDefault(c.category, "all")
        categories == OrCatch(Readdir(LibDir(lib)), NoEntries)
        visited    == { cat \in categories.dirs : category = "all" \/ cat = category }
    IN
    /\ inflight[i].pc = "dispatched"
    /\ c.tool = "list_components"
    /\ IF categories.dirs = {} /\ categories.files = {}
       THEN inflight' = Observe([inflight EXCEPT ![i] =
                           [@ EXCEPT !.pc = "done", !.result = Returned("listing", EmptyListing)]])
       ELSE IF visited = {}
       THEN inflight' = Observe([inflight EXCEPT ![i] =
                           [@ EXCEPT !.pc = "done",
                                     !.result = Returned("listing", [l \in {lib} |-> EmptyListing])]])
       ELSE \E order \in Orderings(visited) :
              inflight' = Observe([inflight EXCEPT ![i] =
                             [@ EXCEPT !.pc = "stat",
                                       !.locals.categories = order,
                                       !.locals.result = [l \in {lib} |-> EmptyListing]]])
    /\ UNCHANGED <<genVars, storeVars, toolVars, tableVars>>

\* the handler's return once the loop has no entry left
ListReturn(c, categories, result, snapshots) ==
  IF categories = <<>>
  THEN [call |-> c, pc |-> "done", result |-> Returned("listing", result),
        locals |-> Locals(<<>>, result, snapshots)]
  ELSE [call |-> c, pc |-> "stat", result |-> NoOutcome,
        locals |-> Locals(categories, result, snapshots)]

\* list_components from there to its next await: fs.stat(catPath)
ListStat ==
  \E i \in 1..Len(inflight) :
    LET c     == inflight[i].call
        lib   == OrDefault(c.library, "all")
        local == inflight[i].locals
        cat   == Head(local.categories)
        next  == ListReturn(c, Tail(local.categories), local.result, local.snapshots)
    IN
    /\ inflight[i].pc = "stat"
    /\ IF OrCatch(Stat(LibDir(lib), cat), {}) = {TRUE}
       THEN inflight' = Observe([inflight EXCEPT ![i] = [@ EXCEPT !.pc = "readdir"]])
       ELSE inflight' = Observe([inflight EXCEPT ![i] = next])
    /\ UNCHANGED <<genVars, storeVars, toolVars, tableVars>>

\* list_components from there to its next await or its return:
\* fs.readdir(catPath), the components of the category, the next entry
ListReaddirCategory ==
  \E i \in 1..Len(inflight) :
    LET c          == inflight[i].call
        lib        == OrDefault(c.library, "all")
        local      == inflight[i].locals
        cat        == Head(local.categories)
        components == ListedIn(lib, cat)
        result     == IF components = {} THEN local.result
                      ELSE [local.result EXCEPT ![lib] =
                              [k \in DOMAIN @ \cup {cat} |->
                                 IF k = cat THEN components ELSE @[k]]]
        next       == ListReturn(c, Tail(local.categories), result, local.snapshots)
    IN
    /\ inflight[i].pc = "readdir"
    /\ inflight' = Observe([inflight EXCEPT ![i] = next])
    /\ UNCHANGED <<genVars, storeVars, toolVars, tableVars>>

-----------------------------------------------------------------------------
(* The stored DataTable component *)

\* the null of a cell value (cell values proper are naturals)
Null == -1

Column(key, sortable) == [key |-> key, sortable |-> sortable]
Row(id, name) == [id |-> id, name |-> name]

keyField == "id"

\* row[key]
Cell(row, key) == IF key \in DOMAIN row THEN row[key] ELSE Null

NoSort == {}
SortBy(key, direction) == {[key |-> key, direction |-> direction]}
Current(config) == CHOOSE c \in config : TRUE

\* the comparator handed to sort
Compare(a, b, config) ==
  LET aVal == Cell(a, Current(config).key)
      bVal == Cell(b, Current(config).key)
      comparison == IF aVal < bVal THEN -1 ELSE 1
  IN IF aVal = bVal THEN 0
     ELSE IF aVal = Null THEN 1
     ELSE IF bVal = Null THEN -1
     ELSE IF Current(config).direction = "asc" THEN comparison ELSE -comparison

\* [...data].sort(comparator): the sort is stable
Sort(data, config) ==
  LET Before(j, i) == \/ Compare(data[j], data[i], config) < 0
                      \/ Compare(data[j], data[i], config) = 0 /\ j < i
      Rank(i) == 1 + Cardinality({ j \in DOMAIN data : Before(j, i) })
  IN [ p \in DOMAIN data |-> data[CHOOSE i \in DOMAIN data : Rank(i) = p] ]

sortedData ==
  IF sortConfig = NoSort THEN tableProps.data ELSE Sort(tableProps.data, sortConfig)

\* the rows of the table body
DisplayedRows == sortedData

handleSortToggle(current, key) ==
  IF current = NoSort \/ Current(current).key # key THEN SortBy(key, "asc")
  ELSE IF Current(current).direction = "asc" THEN SortBy(key, "desc")
  ELSE SortBy(key, "asc")

\* the updater handleSort passes to setSortConfig
handleSort(current, key) ==
  IF current = NoSort \/ Current(current).key # key THEN SortBy(key, "asc")
  ELSE IF Current(current).direction = "asc" THEN SortBy(key, "desc")
  ELSE NoSort

\* what handleSelectAll passes to onSelectionChange
handleSelectAll(checked) ==
  IF checked THEN [ i \in DOMAIN tableProps.data |-> tableProps.data[i][keyField] ]
  ELSE <<>>

\* what handleSelectRow passes to onSelectionChange
handleSelectRow(id, checked) ==
  IF checked THEN Append(tableProps.selectedRows, id)
  ELSE SelectSeq(tableProps.selectedRows, LAMBDA rowId : rowId # id)

allSelected ==
  Len(tableProps.data) > 0 /\ Len(tableProps.selectedRows) = Len(tableProps.data)

someSelected ==
  Len(tableProps.selectedRows) > 0 /\ Len(tableProps.selectedRows) < Len(tableProps.data)

\* selectedRows.includes(rowId)
isSelected(rowId) == \E i \in DOMAIN tableProps.selectedRows : tableProps.selectedRows[i] = rowId

\* the props a parent gives the table
RowIds == 1..MaxRows
ForeignId == MaxRows + 1
CellValues == {Null, 0, 1}

Columns == << Column("id", TRUE), Column("name", TRUE), Column("actions", FALSE) >>

DataInputs ==
  UNION { { d \in [1..n -> { Row(id, name) : id \in RowIds, name \in CellValues }] :
              \A i, j \in 1..n : i # j => d[i].id # d[j].id } : n \in 0..MaxRows }

SelectedRowsInputs == UNION { [1..n -> RowIds \cup {ForeignId}] : n \in 0..MaxSelected }

\* a click on the header cell of column i
HeaderClick(i) ==
  /\ i \in DOMAIN tableProps.columns
  /\ IF tableProps.columns[i].sortable
     THEN sortConfig' = handleSort(sortConfig, tableProps.columns[i].key)
     ELSE UNCHANGED sortConfig
  /\ UNCHANGED <<tableProps, genVars, storeVars, toolVars, concVars>>

\* a click on the header checkbox; the parent stores what onSelectionChange is given
HeaderCheckboxChange ==
  /\ tableProps' = [tableProps EXCEPT !.selectedRows = handleSelectAll(~allSelected)]
  /\ UNCHANGED <<sortConfig, genVars, storeVars, toolVars, concVars>>

\* a click on the checkbox of a displayed row; the parent stores what
\* onSelectionChange is given
RowCheckboxChange(r) ==
  LET rowId == DisplayedRows[r][keyField] IN
  /\ r \in DOMAIN DisplayedRows
  /\ Len(handleSelectRow(rowId, ~isSelected(rowId))) <= MaxSelected
  /\ tableProps' = [tableProps EXCEPT !.selectedRows = handleSelectRow(rowId, ~isSelected(rowId))]
  /\ UNCHANGED <<sortConfig, genVars, storeVars, toolVars, concVars>>

\* the parent renders the table for the first time
Mount(data, selectedRows) ==
  /\ tableProps.columns = <<>>
  /\ tableProps' = [data |-> data, columns |-> Columns, selectedRows |-> selectedRows]
  /\ sortConfig' = NoSort
  /\ UNCHANGED <<genVars, storeVars, toolVars, concVars>>

-----------------------------------------------------------------------------
(* Specifications *)

StoreInit ==
  /\ dirs = {<<>>, <<"layout">>}
  /\ files = [p \in {ShippedCard} |-> Utf8Encode(ShippedCardText)]
  /\ sreq = NoStoreRequest
  /\ sresp = Reply(FALSE, "none", <<>>)
  /\ nsaves = 0
  /\ lastWrite = <<>>
  /\ unreadable = {}
  /\ listed = {}

\* nothing else of the server is in use
ToolsIdle ==
  /\ tokensDoc = [state |-> "missing", text |-> [valid |-> FALSE, value |-> JNull]]
  /\ call = NoCall
  /\ outcome = NoOutcome

NoConcurrency == inflight = <<>>

NoTable ==
  /\ tableProps = [data |-> <<>>, columns |-> <<>>, selectedRows |-> <<>>]
  /\ sortConfig = {}

\* the generator applied, any number of times, to one request drawn from the
\* input sets, with store activity and other scaffold calls in between
Init ==
  /\ req \in ToolRequests \cup GeneratorRequests
  /\ resp = {}
  /\ again = {}
  /\ between = {}
  /\ StoreInit
  /\ ToolsIdle
  /\ NoConcurrency
  /\ NoTable

Next == ScaffoldCall \/ GeneratorCall \/ OtherScaffoldCall \/ SaveBetween \/ GetBetween
Spec == Init /\ [][Next]_vars

\* the component store
InitStore ==
  /\ req = Request("none", "", "", "", {}, {})
  /\ resp = {}
  /\ again = {}
  /\ between = {}
  /\ StoreInit
  /\ ToolsIdle
  /\ NoConcurrency
  /\ NoTable

StoreNext == SaveCall \/ GetCall \/ ListCall
StoreSpec == InitStore /\ [][StoreNext]_vars

\* every tool applied, any number of times, to one call drawn from the input
\* sets, in a state of the data directory drawn from those it can be in
InitTools ==
  /\ \/ call \in ListCalls
     \/ call \in GetCalls
     \/ call \in SaveInputs
     \/ call \in ToolRequests
     \/ call \in TranslateCalls
     \/ call \in GuideCalls
     \/ call \in CompareCalls
     \/ call \in TokensCalls
     \/ call \in InstallCalls
  /\ tokensDoc \in TokensDocs
  /\ \E c \in ComponentsStates :
       /\ dirs = c.dirs
       /\ files = c.files
       /\ unreadable = c.unreadable
  /\ sreq = NoStoreRequest
  /\ sresp = Reply(FALSE, "none", <<>>)
  /\ nsaves = 0
  /\ lastWrite = <<>>
  /\ listed = {}
  /\ outcome = NoOutcome
  /\ req = Request("none", "", "", "", {}, {})
  /\ resp = {}
  /\ again = {}
  /\ between = {}
  /\ NoConcurrency
  /\ NoTable

ToolsNext ==
  \/ ToolList \/ ToolGet \/ ToolSave \/ ToolScaffold \/ ToolTranslate
  \/ ToolGuide \/ ToolCompare \/ ToolTokens \/ ToolInstall
ToolsSpec == InitTools /\ [][ToolsNext]_vars

\* requests dispatched concurrently against a fresh data directory
InitConcurrent ==
  /\ req = Request("none", "", "", "", {}, {})
  /\ resp = {}
  /\ again = {}
  /\ between = {}
  /\ StoreInit
  /\ ToolsIdle
  /\ inflight = <<>>
  /\ NoTable

ConcurrentNext ==
  \/ Dispatch
  \/ RunGeneration
  \/ SaveMkdir
  \/ SaveWrite
  \/ ListReaddirLib
  \/ ListStat
  \/ ListReaddirCategory
ConcurrentSpec == InitConcurrent /\ [][ConcurrentNext]_vars

\* a DataTable mounted with props drawn from the input sets, then used
InitTable ==
  /\ req = Request("none", "", "", "", {}, {})
  /\ resp = {}
  /\ again = {}
  /\ between = {}
  /\ StoreInit
  /\ ToolsIdle
  /\ NoConcurrency
  /\ NoTable

TableNext ==
  \/ \E i \in DOMAIN tableProps.columns : HeaderClick(i)
  \/ HeaderCheckboxChange
  \/ \E r \in DOMAIN DisplayedRows : RowCheckboxChange(r)
  \/ \E d \in DataInputs, s \in SelectedRowsInputs : Mount(d, s)

TableSpec == InitTable /\ [][TableNext]_vars


-----------------------------------------------------------------------------
(* Properties of the generator (checked under Spec) *)

EffProps        == OrDefault(req.props, <<>>)
EffWithVariants == OrDefault(req.withVariants, TRUE)

UnknownLibraryUsesFirstBackend ==
  \A r \in resp :
    req.library \notin SeqRange(LIBRARIES) =>
      /\ ~r.isError
      /\ r.text = scaffoldShadcnComponent(req.name, req.componentType, EffProps, EffWithVariants)

\* C2 (amended) - a library outside the recognized set yields the output of
\* the custom backend (the last listed library, which emits the headless
\* Tailwind templates) for the same name and type, not a failure.
UnknownLibraryUsesCustomBackend ==
  \A r \in resp :
    req.library \notin SeqRange(LIBRARIES) =>
      /\ ~r.isError
      /\ r.text = scaffoldCustomComponent(req.name, req.componentType, EffProps, EffWithVariants)
      /\ IsText(r.text) => r.text.backend = "headless"

UnknownLibraryWitness ==
  /\ req.library = "vue-tailwind"
  /\ req.componentType = "card"
  /\ \E r \in resp : r.text = Template("headless", "card", req.name)

\* own keys of the catalogue the library dispatches to
CatalogueKeys(library) ==
  CASE library = "shadcn" -> ShadcnKeys
    [] library = "mui"    -> MuiKeys
    [] library = "chakra" -> ChakraKeys
    [] OTHER              -> HeadlessKeys

\* C3 - Fallback totality: for every library and every componentType string the
\* backend returns source text, and a componentType with no catalogue entry
\* yields the button template instantiated with the given name.
FallbackTotality ==
  \A r \in resp :
    /\ IsText(r.text)
    /\ req.componentType \notin CatalogueKeys(req.library) =>
         /\ r.text.template = "button"
         /\ r.text.name = req.name

\* names of the props a text types by a variant axis
VariantTypedFields(src) ==
  SeqRange(AxisNames(CvaAxes(src))) \cup SeqRange(AxisNames(PropAxes(src)))

\* C4 - hasVariants gating: with withVariants = false no output contains a cva
\* variant table or variant-typed prop fields.
NoVariantsWhenSwitchedOff ==
  \A r \in resp :
    (req.tool = "scaffold_component" /\ EffWithVariants = FALSE) =>
      /\ CvaAxes(r.text) = <<>>
      /\ VariantTypedFields(r.text) = {}

\* the axes the default-variant law is stated for: the cva axes of the shadcn
\* templates and the union-typed props of the MUI and headless button templates
LawAxes(src) ==
  CvaAxes(src) \o (IF IsText(src) /\ src.template = "button" THEN PropAxes(src) ELSE <<>>)

DefaultIsFirst(axes) == \A i \in 1..Len(axes) : axes[i].default = axes[i].values[1]

\* C5 (as stated) - Default-variant law: every declared axis of an emitted
\* button or alert, and of the stored Card, defaults to its first declared value.
DefaultVariantLaw ==
  /\ \A r \in resp : DefaultIsFirst(LawAxes(r.text))
  /\ DefaultIsFirst(CardAxes)

\* the prop axes whose default is the middle size: size and padding
MiddleDefault(a) == a.axis \in {"size", "padding"}

DefaultAmongValues(axes) ==
  \A i \in 1..Len(axes) :
    /\ axes[i].default \in SeqRange(axes[i].values)
    /\ ~MiddleDefault(axes[i]) => axes[i].default = axes[i].values[1]
    /\ MiddleDefault(axes[i]) => axes[i].default \in {"md", "medium"}

\* C5 (amended) - every declared axis defaults to one of its declared values:
\* the first one for every cva axis and for the variant and color props, and
\* "md" / "medium" for the size props of the headless and MUI buttons and the
\* padding prop of the stored Card.
DefaultVariantDeclared ==
  /\ \A r \in resp :
       /\ DefaultIsFirst(CvaAxes(r.text))
       /\ IsText(r.text) /\ r.text.template = "button" => DefaultAmongValues(PropAxes(r.text))
  /\ DefaultAmongValues(CardAxes)

DefaultVariantWitness ==
  \E r \in resp : \/ r.text = Template("headless", "button", req.name)
                  \/ r.text = Template("shadcn", "button", req.name)

\* scaffold_component(PrimaryButton, shadcn, button) with the axes intent and
\* size declared through `props`
IsPrimaryButtonRequest ==
  /\ req.tool = "scaffold_component"
  /\ req.name = "PrimaryButton"
  /\ req.library = "shadcn"
  /\ req.componentType = "button"
  /\ EffProps = <<Prop("intent", "'primary' | 'danger'"), Prop("size", "'sm' | 'lg'")>>

HasAsChildAndHostAttributes(src) ==
  /\ Field("asChild", TRUE) \in PropsFields(src)
  /\ "React.ButtonHTMLAttributes<HTMLButtonElement>" \in PropsExtends(src.backend, src.template)

CustomPropsEmitted ==
  \A r \in resp :
    \A i \in 1..Len(EffProps) :
      EffProps[i].name \notin ReservedProps => EffProps[i].name \in FieldNames(r.text)

\* C8 - scaffold_component returns the template of the requested component type.
RequestedTypeGenerated ==
  \A r \in resp :
    req.tool = "scaffold_component" =>
      /\ IsText(r.text)
      /\ r.text.template = req.componentType

-----------------------------------------------------------------------------
(* Properties of the component store (checked under StoreSpec) *)

SavedOk == sreq.tool = "save_component" /\ ~sresp.isError

\* the header the save is specified to write
ExpectedHeader(descriptionOpt, library, category) ==
  IF descriptionOpt = {} \/ descriptionOpt = {<<>>} THEN <<>>
  ELSE HeaderOpen \o OrDefault(descriptionOpt, <<>>) \o HeaderLibrary \o Chars(library)
       \o HeaderCategory \o Chars(category) \o HeaderClose

ExpectedText == ExpectedHeader(sreq.description, sreq.library, sreq.category) \o sreq.code

\* C9 (as stated) - right after a successful save, get_component of the same
\* (library, category, name) returns header + code character for character.
SaveGetRoundTrip ==
  SavedOk => GetResult(sreq.library, sreq.category, sreq.name) = Reply(FALSE, "content", ExpectedText)

\* a text with every unpaired surrogate replaced by U+FFFD
ReplaceUnpaired(s) ==
  [i \in 1..Len(s) |->
     IF IsHighSurrogate(s[i]) /\ i < Len(s) /\ IsLowSurrogate(s[i + 1]) THEN s[i]
     ELSE IF IsLowSurrogate(s[i]) /\ i > 1 /\ IsHighSurrogate(s[i - 1]) THEN s[i]
     ELSE IF IsHighSurrogate(s[i]) \/ IsLowSurrogate(s[i]) THEN 65533
     ELSE s[i]]

\* C9 (amended) - right after a successful save, get_component returns
\* header + code with every unpaired UTF-16 surrogate replaced by U+FFFD, hence
\* header + code itself when the text has no unpaired surrogate.
SaveGetRoundTripWellFormed ==
  SavedOk =>
    GetResult(sreq.library, sreq.category, sreq.name)
      = Reply(FALSE, "content", ReplaceUnpaired(ExpectedText))

\* a save with a description whose code is one astral character, read back intact
SaveGetWitness ==
  /\ SavedOk
  /\ sreq.description = {<<100>>}
  /\ sreq.code = <<55357, 56832>>
  /\ GetResult(sreq.library, sreq.category, sreq.name).text = ExpectedText

\* C10 - Create-or-overwrite: get_component of a key returns what the most
\* recent successful save to that key wrote.
LatestSaveWins ==
  \A k \in DOMAIN lastWrite :
    GetResult(k[1], k[2], k[3]) = Reply(FALSE, "content", Utf8Decode(lastWrite[k]))

\* C11 - Not-found on read: get_component of a (library, category, name) that
\* no save has written returns an error result whose message names
\* library/category/name, and never component text.
NotFoundOnRead ==
  (sreq.tool = "get_component"
     /\ Key(sreq.library, sreq.category, sreq.name) \notin DOMAIN lastWrite)
  => sresp = Reply(TRUE, "not-found",
                   NotFoundMessage(sreq.library, sreq.category, sreq.name))

\* the names saved successfully under (lib, cat)
SavedNames(lib, cat) == {k[3] : k \in {j \in DOMAIN lastWrite : j[1] = lib /\ j[2] = cat}}

ListedUnder(listing, lib, cat) ==
  IF lib \in DOMAIN listing /\ cat \in DOMAIN listing[lib] THEN listing[lib][cat] ELSE {}

\* C12 - Enumerate keys: the listing holds, for each library and category that
\* match the filters, exactly the names saved there: every saved name is
\* listed under result[lib][cat], every listed name was saved there, and
\* get_component retrieves every listed name.
ListingIsExact ==
  sreq.tool = "list_components" =>
    \A listing \in listed :
      \A lib \in ListedLibraries(sreq.library) :
        \A cat \in {c \in SeqRange(CATEGORIES) : sreq.category = "all" \/ c = sreq.category} :
          /\ \A name \in SavedNames(lib, cat) :
                name.dir = <<>> /\ name.base \in ListedUnder(listing, lib, cat)
          /\ \A n \in ListedUnder(listing, lib, cat) :
                /\ Name(<<>>, n) \in SavedNames(lib, cat)
                /\ ~GetResult(lib, cat, Name(<<>>, n)).isError

\* C21 - Frame effect of save: a save changes only the entry addressed by its
\* (library, category, name); for every other (library, category, name)
\* get_component returns the same result before and after the save, the name
\* is listed before exactly if it is listed after, and list_components of
\* another category returns the same listing.
SaveChangesOnlyItsEntry ==
  [][ (sreq'.tool = "save_component" /\ nsaves' # nsaves) =>
        \A library \in StoreLibraries, category \in StoreCategories :
          /\ \A name \in NameInputs :
                Key(library, category, name) # Key(sreq'.library, sreq'.category, sreq'.name) =>
                  /\ GetResult(library, category, name)' = GetResult(library, category, name)
                  /\ (name.base \in ListedIn(library, category))'
                       = (name.base \in ListedIn(library, category))
          /\ <<library, category>> # <<sreq'.library, sreq'.category>> =>
                Listing(library, category)' = Listing(library, category) ]_vars

\* some directory list_components has to read is missing or unreadable
StoreCannotBeRead(library, category) ==
  \E lib \in ListedLibraries(library) :
    \/ ~Readdir(LibDir(lib)).ok
    \/ \E cat \in CategoriesOf(lib).dirs :
         /\ category = "all" \/ cat = category
         /\ ~Stat(LibDir(lib), cat).ok \/ ~Readdir(Append(LibDir(lib), cat)).ok

\* C14 - when the component store cannot be read, list_components returns a
\* failure result (isError with a message), not a successful listing.
ListFailureReported ==
  (sreq.tool = "list_components" /\ StoreCannotBeRead(sreq.library, sreq.category))
  => sresp.isError

-----------------------------------------------------------------------------
(* Properties of the tool handlers (checked under ToolsSpec) *)

\* C13 - No tool handler throws past its boundary: every call the schemas
\* admit, in every state of the file store, resolves to a result value; a
\* failure is a result flagged isError that carries a message, never a
\* rejected call.
NoHandlerThrows ==
  /\ outcome.settled # "rejected"
  /\ outcome.isError => outcome.message # ""

\* a call whose try block threw and whose catch reported it
NoHandlerThrowsWitness ==
  /\ call.tool = "get_design_tokens"
  /\ tokensDoc.state = "present"
  /\ ~tokensDoc.text.valid
  /\ outcome = Resolved(TRUE, "Error reading design tokens")

\* C15 - when the token document does not exist, get_design_tokens returns a
\* successful result (the built-in default tokens), not an error result.
DefaultTokensWhenMissing ==
  (call.tool = "get_design_tokens" /\ tokensDoc.state = "missing" /\ outcome.settled = "resolved")
  => ~outcome.isError

\* C17 - translate_component converts the component it is given: with
\* sourceCode provided, the component text returned is not the built-in
\* template of componentType (that one is returned only without sourceCode).
TranslationUsesSourceCode ==
  (call.tool = "translate_component" /\ outcome.settled = "resolved" /\ call.sourceCode # {})
  => outcome.value.component
       # scaffoldMultiLibraryComponent(Capitalize(call.componentType), call.targetLibrary,
                                       call.componentType, <<>>, TRUE)

\* C24 - Design tokens are readable by category: from the token document,
\* get_design_tokens returns the whole document for tokenType "all" (the
\* default), exactly the top-level category named by any other tokenType, and
\* an empty object, as a successful result, when the document has no such
\* category; the format defaults to JSON.
TokensReadableByCategory ==
  (/\ call.tool = "get_design_tokens"
   /\ outcome.settled = "resolved"
   /\ tokensDoc.state = "present"
   /\ tokensDoc.text.valid
   /\ OrDefault(call.format, "json") = "json")
  => LET tokens    == tokensDoc.text.value
         tokenType == OrDefault(call.tokenType, "all")
         category  == IF tokenType = "all" THEN tokens
                      ELSE IF HasMember(tokens, tokenType) THEN MemberOf(tokens, tokenType)
                      ELSE JObject(<<>>)
     IN /\ ~outcome.isError
        /\ outcome.value = [format |-> "json", key |-> "", body |-> category]

\* C23 - compare_libraries emits exactly one section per distinct requested
\* library, in order of first occurrence in `libraries` (the five libraries
\* in LIBRARIES order when `libraries` is omitted); the code of a section is
\* scaffoldMultiLibraryComponent(Capitalized componentType, its library,
\* componentType, [], true).
OneSectionPerLibrary ==
  (call.tool = "compare_libraries" /\ outcome.settled = "resolved") =>
    LET requested  == OrDefault(call.libraries, LIBRARIES)
        sections   == outcome.value.sections
        First(lib) == CHOOSE i \in DOMAIN requested :
                        requested[i] = lib /\ \A j \in 1..(i - 1) : requested[j] # lib
    IN /\ { sections[i].lib : i \in DOMAIN sections } = SeqRange(requested)
       /\ Len(sections) = Cardinality(SeqRange(requested))
       /\ \A i, j \in DOMAIN sections :
            i < j => First(sections[i].lib) < First(sections[j].lib)
       /\ \A i \in DOMAIN sections :
            sections[i].code
              = scaffoldMultiLibraryComponent(Capitalize(call.componentType), sections[i].lib,
                                              call.componentType, <<>>, TRUE)
       /\ call.libraries = {} => [i \in DOMAIN sections |-> sections[i].lib] = LIBRARIES

\* a request that names chakra twice has been answered with two sections
OneSectionPerLibraryWitness ==
  /\ call.tool = "compare_libraries"
  /\ call.libraries = {<<"chakra", "shadcn", "chakra">>}
  /\ outcome.settled = "resolved"
  /\ Len(outcome.value.sections) = 2
  /\ outcome.value.sections[1].lib = "chakra"

-----------------------------------------------------------------------------
(* Properties of concurrent dispatch (checked under ConcurrentSpec) *)

Done(i) == inflight[i].pc = "done"

ListingIsSnapshot ==
  \A i \in 1..Len(inflight) :
    (Done(i) /\ inflight[i].call.tool = "list_components") =>
      inflight[i].result.value \in inflight[i].locals.snapshots

-----------------------------------------------------------------------------
(* Properties of the DataTable component (checked under TableSpec) *)

\* C18 - The table paginates: for some page size below the number of rows
\* the table may be given, the rows displayed are one page of the sorted data.
RowsLimitedToPage ==
  \E size \in 1..(MaxRows - 1), page \in 1..MaxRows :
    LET first == (page - 1) * size + 1
        last  == IF page * size < Len(sortedData) THEN page * size ELSE Len(sortedData)
    IN DisplayedRows = SubSeq(sortedData, first, last)

SortColumns ==
  { i \in DOMAIN tableProps.columns :
      sortConfig # NoSort /\ Current(sortConfig).key = tableProps.columns[i].key }

\* the sort state the cycle prescribes after a click on the header of column i
AfterClick(i) ==
  LET column == tableProps.columns[i] IN
  IF ~column.sortable THEN sortConfig
  ELSE IF SortColumns = {} THEN SortBy(column.key, "asc")
  ELSE IF i \notin SortColumns THEN SortBy(column.key, "asc")
  ELSE IF Current(sortConfig).direction = "asc" THEN SortBy(column.key, "desc")
  ELSE NoSort

\* C19 - The sort state is a three-state cycle per column: clicks on the same
\* sortable header go none -> ascending -> descending -> none, a click on
\* another sortable header sets that column ascending, a click on a
\* non-sortable header changes nothing, and at most one column is the sort
\* column.
SortCycle ==
  [][ /\ \A i \in DOMAIN tableProps.columns : HeaderClick(i) => sortConfig' = AfterClick(i)
      /\ Cardinality(SortColumns) <= 1
      /\ Cardinality(SortColumns') <= 1 ]_vars

\* a column has been clicked twice and is sorted descending
SortCycleWitness ==
  /\ sortConfig = SortBy("name", "desc")
  /\ Len(tableProps.data) = MaxRows
  /\ sortedData # tableProps.data

\* C20 - The header checkbox is checked exactly when every row of data is
\* selected and indeterminate exactly when some but not all rows are, for
\* every selectedRows; it is never both, and with empty data it is not checked.
SelectAllCheckbox ==
  LET ids      == { tableProps.data[i][keyField] : i \in DOMAIN tableProps.data }
      selected == { id \in ids : isSelected(id) }
  IN /\ allSelected <=> (ids # {} /\ selected = ids)
     /\ someSelected <=> (selected # {} /\ selected # ids)
     /\ ~(allSelected /\ someSelected)
     /\ tableProps.data = <<>> => ~allSelected

====
